---- MODULE Spec2Model ----
(***************************************************************************)
(* GC9A01 display driver (gc9a01.py): construction, the initialization     *)
(* sequence, the flush pipeline with its DMA completion interrupt, and     *)
(* teardown, together with the pieces of the SPI peripheral and of the     *)
(* graphics framework that the driver talks to.                            *)
(***************************************************************************)
EXTENDS Integers, Sequences, FiniteSets, TLC

VARIABLES
    cfg,            \* the constructor arguments kept on self
    faults,         \* transport failures the peripheral may still report
    pc,             \* position of the normal execution context
    err,            \* exception raised to the caller by the current/last call
    attrs,          \* the attributes assigned on self so far, among those below
    init_cmds,      \* self.init_cmds
    rotation,       \* self.rotation
    buf1, buf2,     \* self.buf1, self.buf2: None or a pointer
    trans_buffer,   \* self.trans_buffer: None or a pointer
    tbuf,           \* the TRANS_BUFFER_LEN bytes behind self.trans_buffer
    heap,           \* state of each block handed out by heap_caps_malloc
    spi,            \* self.spi: None or the device handle
    spihost,        \* self.spihost
    hw,             \* SPI peripheral: [bus, dev] lifecycle
    lvesp32,        \* the lvesp32 event loop / finalizer hook
    registered,     \* the driver is registered with the graphics framework
    flushing,       \* framework's disp_buf.flushing: a flush awaits flush_ready
    nready,         \* flush_ready notifications since the last flush call
    trans,          \* the one reused spi_transaction_t (class attribute)
    dmaq,           \* queued DMA transactions not yet completed
    results,        \* completed transaction results not yet popped
    dc,             \* level of the data/command select line
    area, color_p,  \* arguments of the flush call in progress
    cmd_idx,        \* _init: index of the init_cmds entry being sent
    trace,          \* what the call in progress has done so far, in order
    fault,          \* a transport failure was reported during [init, flush]
    deinitCalls,    \* number of deinit() calls so far
    heap_size,      \* bytes asked of heap_caps_malloc for each block
    disp_buf,       \* the lv.disp_buf_t handed to the framework
    init_kind,      \* which of init() / init_async() is running _init
    waits,          \* how the waits of the _init in progress were served
    payload,        \* argument of the send_data call in progress
    ccount,         \* the CPU cycle counter (CCOUNT register, 32 bits)
    ticks,          \* advances of the cycle counter the run may still see
    int_signed,     \* C_Pointer.int_val reads the 32 bits as a signed int
    start_time,     \* self.start_time_ptr.int_val
    end_time,       \* self.end_time_ptr.int_val
    flush_acc_setup_cycles,
    flush_acc_dma_cycles,
    monitor_acc_time, monitor_acc_px, monitor_count,
    stat_ret,       \* what the stat() call in progress returns
    isr_log,        \* the calls made by the last run of flush_isr, in order
    lap             \* cycle counter at the points of the last flush

vars == <<cfg, faults, pc, err, attrs, init_cmds, rotation, buf1, buf2, trans_buffer, tbuf,
          heap, spi, spihost, hw, lvesp32, registered, flushing, nready, trans,
          dmaq, results, dc, area, color_p, cmd_idx, trace, fault, deinitCalls,
          heap_size, disp_buf, init_kind, waits, payload, ccount, ticks, int_signed,
          start_time, end_time, flush_acc_setup_cycles, flush_acc_dma_cycles,
          monitor_acc_time, monitor_acc_px, monitor_count, stat_ret, isr_log, lap>>

\* Groups of variables, as the operations leave them alone.
userVars == <<payload, int_signed, monitor_acc_time, monitor_acc_px, monitor_count, stat_ret>>
ctorVars == <<heap_size, disp_buf>>
initVars == <<init_kind, waits>>
accVars == <<start_time, flush_acc_setup_cycles, flush_acc_dma_cycles>>
clockVars == <<isr_log, ccount, ticks, end_time, lap>>
isrVars == <<flushing, nready, clockVars>>
coreVars == <<cfg, faults, err, attrs, init_cmds, rotation, buf1, buf2, trans_buffer, tbuf,
              heap, spi, spihost, hw, lvesp32, registered, trans, dmaq, results, dc,
              area, color_p, cmd_idx, trace, fault, deinitCalls>>

-----------------------------------------------------------------------------
(* Program constants                                                       *)

TRANS_BUFFER_LEN == 16
ColorSize == 2
QueueSize == 2
NoPin == -1
ESP_OK == 0
ESP_FAIL == -1
ESP_ERR_TIMEOUT == 263

\* Cycle counts are kept in units of CycleUnit cycles (the counter is looked
\* at when its low six bits are zero), which keeps 2^32 cycles within the
\* integers of the model checker.
CycleUnit == 64

\* The CCOUNT register counts modulo 2^32 cycles; read as a C int, its upper
\* half is negative.
Wrap32 == 67108864
Half32 == 33554432

\* esp.esp_clk_cpu_freq() of the ESP32 at its default 240 MHz.
esp_clk_cpu_freq == 240000000

\* Line 525, in units of CycleUnit cycles.
cycles_in_ms == (esp_clk_cpu_freq \div 1000) \div CycleUnit

None == "None"
Ptr == "ptr"
NoStat == [ret |-> "no call", time |-> 0, setup |-> 0, dma |-> 0, px |-> 0]
NoLap == [entry |-> 0, mark |-> 0, issue |-> 0, done |-> 0, pending |-> FALSE]
NoLevel == -1
NoRotation == -1

ROTATE == (0 :> \h18) @@ (90 :> \h28) @@ (180 :> \h48) @@ (270 :> \h88)

SET_COLUMN == \h2A
SET_PAGE == \h2B
WRITE_RAM == \h2C

\* The table assigned to self.init_cmds by the constructor.
InitCmdsTable(self_rotation) ==
    <<
       [cmd |-> \hEF, data |-> <<0>>],
       [cmd |-> \hEB, data |-> <<\h14>>],
       [cmd |-> \hFE, data |-> <<0>>],
       [cmd |-> \hEF, data |-> <<0>>],
       [cmd |-> \hEB, data |-> <<\h14>>],
       [cmd |-> \h84, data |-> <<\h40>>],
       [cmd |-> \h85, data |-> <<\hFF>>],
       [cmd |-> \h86, data |-> <<\hFF>>],
       [cmd |-> \h87, data |-> <<\hFF>>],
       [cmd |-> \h88, data |-> <<\h0A>>],
       [cmd |-> \h89, data |-> <<\h21>>],
       [cmd |-> \h8A, data |-> <<\h00>>],
       [cmd |-> \h8B, data |-> <<\h80>>],
       [cmd |-> \h8C, data |-> <<\h01>>],
       [cmd |-> \h8D, data |-> <<\h01>>],
       [cmd |-> \h8E, data |-> <<\hFF>>],
       [cmd |-> \h8F, data |-> <<\hFF>>],
       [cmd |-> \hB6, data |-> <<\h00, \h00>>],
       [cmd |-> \h36, data |-> <<\h48>>],
       [cmd |-> self_rotation, data |-> <<0>>],
       [cmd |-> \h3A, data |-> <<\h05>>],
       [cmd |-> \h90, data |-> <<\h08, \h08, \h08, \h08>>],
       [cmd |-> \hBD, data |-> <<\h06>>],
       [cmd |-> \hBC, data |-> <<\h00>>],
       [cmd |-> \hFF, data |-> <<\h60, \h01, \h04>>],
       [cmd |-> \hC3, data |-> <<\h13>>],
       [cmd |-> \hC4, data |-> <<\h13>>],
       [cmd |-> \hC9, data |-> <<\h22>>],
       [cmd |-> \hBE, data |-> <<\h11>>],
       [cmd |-> \hE1, data |-> <<\h10, \h0E>>],
       [cmd |-> \hDF, data |-> <<\h21, \h0C, \h02>>],
       [cmd |-> \hF0, data |-> <<\h45, \h09, \h08, \h08, \h26, \h2A>>],
       [cmd |-> \hF1, data |-> <<\h43, \h70, \h72, \h36, \h37, \h6F>>],
       [cmd |-> \hF2, data |-> <<\h45, \h09, \h08, \h08, \h26, \h2A>>],
       [cmd |-> \hF3, data |-> <<\h43, \h70, \h72, \h36, \h37, \h6F>>],
       [cmd |-> \hED, data |-> <<\h1B, \h0B>>],
       [cmd |-> \hAE, data |-> <<\h77>>],
       [cmd |-> \hCD, data |-> <<\h63>>],
       [cmd |-> \h70, data |-> <<\h07, \h07, \h04, \h0E, \h0F, \h09, \h07, \h08, \h03>>],
       [cmd |-> \hE8, data |-> <<\h34>>],
       [cmd |-> \h62, data |-> <<\h18, \h0D, \h71, \hED, \h70, \h70, \h18, \h0F, \h71, \hEF, \h70, \h70>>],
       [cmd |-> \h63, data |-> <<\h18, \h11, \h71, \hF1, \h70, \h70, \h18, \h13, \h71, \hF3, \h70, \h70>>],
       [cmd |-> \h64, data |-> <<\h28, \h29, \hF1, \h01, \hF1, \h00, \h07>>],
       [cmd |-> \h66, data |-> <<\h3C, \h00, \hCD, \h67, \h45, \h45, \h10, \h00, \h00, \h00>>],
       [cmd |-> \h67, data |-> <<\h00, \h3C, \h00, \h00, \h00, \h01, \h54, \h10, \h32, \h98>>],
       [cmd |-> \h74, data |-> <<\h10, \h85, \h80, \h00, \h00, \h4E, \h00>>],
       [cmd |-> \h98, data |-> <<\h3E, \h07>>],
       [cmd |-> \h35, data |-> <<0>>],
       [cmd |-> \h21, data |-> <<0>>],
       [cmd |-> \h11, data |-> <<0>>, delay |-> 20],
       [cmd |-> \h29, data |-> <<0>>, delay |-> 120]
    >>

\* The entry the constructor appends when invert is set.
InvertCmd == [cmd |-> \h21]

-----------------------------------------------------------------------------
(* Bounds of the model                                                     *)

MaxDeinit == 2
MaxFaults == 1
MaxTicks == 3
MaxSamples == 2

-----------------------------------------------------------------------------
(* Constructor arguments                                                   *)

Default ==
    [rotation |-> 0, invert |-> FALSE, double_buffer |-> TRUE,
     asynchronous |-> FALSE, initialize |-> TRUE,
     rst |-> 4, power |-> 14, backlight |-> 15, backlight_on |-> 0, power_on |-> 0,
     width |-> 240, height |-> 240, factor |-> 4]

\* The configurations explored: the defaults varied along one group of
\* arguments at a time.
RotationConfigs == {[Default EXCEPT !.rotation = r] : r \in {0, 90, 180, 270, 45, 360}}

FlagConfigs ==
    {[Default EXCEPT !.invert = i, !.double_buffer = d, !.asynchronous = a, !.initialize = n] :
        i \in BOOLEAN, d \in BOOLEAN, a \in BOOLEAN, n \in BOOLEAN}

PinConfigs ==
    {[Default EXCEPT !.rst = r, !.power = p, !.backlight = b] :
        r \in {NoPin, 4}, p \in {NoPin, 14}, b \in {NoPin, 15}}

PolarityConfigs ==
    {[Default EXCEPT !.power_on = po, !.backlight_on = bo] : po \in {0, 1}, bo \in {0, 1}}

SizeConfigs == {[Default EXCEPT !.width = 320]}

\* The configurations explored with a running cycle counter.
PerfConfigs == {[Default EXCEPT !.width = 1, !.height = 1, !.factor = 1, !.double_buffer = FALSE]}

\* The configurations explored with a failing peripheral.
FaultConfigs == {[Default EXCEPT !.initialize = n] : n \in BOOLEAN}

Configs == RotationConfigs \cup FlagConfigs \cup PinConfigs \cup PolarityConfigs \cup SizeConfigs

-----------------------------------------------------------------------------
(* Trace events                                                            *)

Ev(op, arg) == [op |-> op, arg |-> arg]

Rect(a, b, c, d) == [x1 |-> a, y1 |-> b, x2 |-> c, y2 |-> d]

\* No flush call is in progress.
NoArea == Rect(-1, -1, -1, -1)

-----------------------------------------------------------------------------
(* Initial state: the interpreter is about to run GC9A01(...)              *)

InitWith(C, f, t) ==
    /\ cfg \in C
    /\ faults = f
    /\ ticks = t
    /\ int_signed \in (IF t > 0 THEN BOOLEAN ELSE {TRUE})
    /\ ccount = 0
    /\ start_time = 0 /\ end_time = 0
    /\ flush_acc_setup_cycles = 0 /\ flush_acc_dma_cycles = 0
    /\ monitor_acc_time = 0 /\ monitor_acc_px = 0 /\ monitor_count = 0
    /\ stat_ret = NoStat
    /\ isr_log = <<>>
    /\ lap = NoLap
    /\ heap_size = [buf1 |-> 0, buf2 |-> 0, trans_buffer |-> 0]
    /\ disp_buf = [buf1 |-> None, buf2 |-> None, size |-> 0]
    /\ init_kind = "none"
    /\ waits = <<>>
    /\ payload = <<>>
    /\ pc = "ctor"
    /\ err = None
    /\ attrs = {}
    /\ init_cmds = <<>>
    /\ rotation = NoRotation
    /\ buf1 = None /\ buf2 = None /\ trans_buffer = None
    /\ tbuf = [i \in 1..TRANS_BUFFER_LEN |-> 0]
    /\ heap = [buf1 |-> "unalloc", buf2 |-> "unalloc", trans_buffer |-> "unalloc"]
    /\ spi = None
    /\ spihost = "HSPI_HOST"
    /\ hw = [bus |-> "uninit", dev |-> "none"]
    /\ lvesp32 = "off"
    /\ registered = FALSE
    /\ flushing = FALSE
    /\ nready = 0
    /\ trans = [length |-> 0, tx_buffer |-> None, user |-> None]
    /\ dmaq = <<>>
    /\ results = 0
    /\ dc = NoLevel
    /\ area = NoArea /\ color_p = None
    /\ cmd_idx = 0
    /\ trace = <<>>
    /\ fault = [init |-> FALSE, flush |-> FALSE]
    /\ deinitCalls = 0

Init == InitWith(Configs, 0, 0)

InitFault == InitWith(FaultConfigs, MaxFaults, 0)

InitPerf == InitWith(PerfConfigs, 0, MaxTicks)

\* Return codes the peripheral may give to a bus, device or transfer call.
Rets == IF faults > 0 THEN {ESP_OK, ESP_FAIL} ELSE {ESP_OK}

\* The budget left after a call that returned ret.
Reported(ret) == IF ret # ESP_OK THEN faults - 1 ELSE faults

-----------------------------------------------------------------------------
(* GC9A01.__init__                                                         *)

buf_size == (cfg.width * cfg.height * ColorSize) \div cfg.factor

Raise(e) == /\ err' = e
            /\ pc' = "failed"

\* Lines 85-110: keep the arguments, compute buf_size, append the invert
\* command to self.init_cmds, an attribute that nothing has assigned yet.
ctor_invert ==
    /\ pc = "ctor"
    /\ IF cfg.invert
         THEN IF "init_cmds" \notin attrs
                THEN Raise("AttributeError") /\ UNCHANGED init_cmds
                ELSE /\ init_cmds' = Append(init_cmds, InvertCmd)
                     /\ pc' = "ctor_alloc"
                     /\ UNCHANGED err
         ELSE pc' = "ctor_alloc" /\ UNCHANGED <<err, init_cmds>>
    /\ UNCHANGED <<cfg, faults, attrs, rotation, buf1, buf2, trans_buffer, tbuf, heap, spi,
                   spihost, hw, lvesp32, registered, flushing, nready, trans, dmaq,
                   results, dc, area, color_p, cmd_idx, trace, fault, deinitCalls,
                   userVars, ctorVars, initVars, accVars, clockVars>>

\* esp.heap_caps_malloc at the allocation site: the block's pointer, or None.
heap_caps_malloc(site, ok) == IF ok THEN site ELSE None

\* A constructor that gives the framework the capacity in bytes.
ctor_alloc_capacity_in_bytes ==
    /\ pc = "ctor_alloc"
    /\ \E ok1 \in BOOLEAN, ok2 \in BOOLEAN :
         LET b1 == heap_caps_malloc("buf1", ok1)
             b2 == IF cfg.double_buffer THEN heap_caps_malloc("buf2", ok2) ELSE None
         IN /\ (~cfg.double_buffer => ok2)
            /\ buf1' = b1
            /\ buf2' = b2
            /\ attrs' = attrs \cup {"buf1", "buf2"}
            /\ heap' = [heap EXCEPT !.buf1 = IF b1 # None THEN "live" ELSE @,
                                    !.buf2 = IF b2 # None THEN "live" ELSE @]
            /\ heap_size' = [heap_size EXCEPT !.buf1 = IF b1 # None THEN buf_size ELSE @,
                                              !.buf2 = IF b2 # None THEN buf_size ELSE @]
            /\ IF b1 # None
                 THEN /\ disp_buf' = [buf1 |-> b1, buf2 |-> b2, size |-> buf_size]
                      /\ pc' = "ctor_spi"
                      /\ UNCHANGED err
                 ELSE /\ Raise("RuntimeError: Not enough DMA-able memory")
                      /\ UNCHANGED disp_buf
    /\ UNCHANGED <<cfg, faults, init_cmds, rotation, trans_buffer, tbuf, spi, spihost, hw,
                   lvesp32, registered, flushing, nready, trans, dmaq, results, dc,
                   area, color_p, cmd_idx, trace, fault, deinitCalls,
                   userVars, initVars, accVars, clockVars>>

\* Lines 114-127: allocate the pixel buffers and hand them to the framework.
ctor_alloc ==
    /\ pc = "ctor_alloc"
    /\ \E ok1 \in BOOLEAN, ok2 \in BOOLEAN :
         LET b1 == heap_caps_malloc("buf1", ok1)
             b2 == IF cfg.double_buffer THEN heap_caps_malloc("buf2", ok2) ELSE None
         IN /\ (~cfg.double_buffer => ok2)
            /\ buf1' = b1
            /\ buf2' = b2
            /\ attrs' = attrs \cup {"buf1", "buf2"}
            /\ heap' = [heap EXCEPT !.buf1 = IF b1 # None THEN "live" ELSE @,
                                    !.buf2 = IF b2 # None THEN "live" ELSE @]
            /\ heap_size' = [heap_size EXCEPT !.buf1 = IF b1 # None THEN buf_size ELSE @,
                                              !.buf2 = IF b2 # None THEN buf_size ELSE @]
            /\ IF b1 # None
                 THEN /\ disp_buf' = [buf1 |-> b1, buf2 |-> b2, size |-> buf_size \div ColorSize]
                      /\ pc' = "ctor_spi"
                      /\ UNCHANGED err
                 ELSE /\ Raise("RuntimeError: Not enough DMA-able memory")
                      /\ UNCHANGED disp_buf
    /\ UNCHANGED <<cfg, faults, init_cmds, rotation, trans_buffer, tbuf, spi, spihost, hw,
                   lvesp32, registered, flushing, nready, trans, dmaq, results, dc,
                   area, color_p, cmd_idx, trace, fault, deinitCalls,
                   userVars, initVars, accVars, clockVars>>

\* Lines 129, 205-300: disp_spi_init.
disp_spi_init ==
    /\ pc = "ctor_spi"
    /\ lvesp32' = IF ~cfg.asynchronous THEN "running" ELSE lvesp32
    /\ \E busret \in Rets, devret \in Rets, okt \in BOOLEAN :
         /\ faults' = IF busret # ESP_OK \/ (okt /\ devret # ESP_OK)
                        THEN faults - 1 ELSE faults
         /\ IF busret # ESP_OK
           THEN /\ Raise("RuntimeError: Failed initializing SPI bus")
                /\ UNCHANGED <<attrs, trans_buffer, heap, heap_size, hw, spi>>
           ELSE IF ~okt
             THEN \* heap_caps_malloc gave None: None.__dereference__ at line 267
                  /\ Raise("AttributeError")
                  /\ trans_buffer' = None
                  /\ attrs' = attrs \cup {"trans_buffer"}
                  /\ hw' = [hw EXCEPT !.bus = "init"]
                  /\ UNCHANGED <<heap, heap_size, spi>>
             ELSE /\ trans_buffer' = heap_caps_malloc("trans_buffer", okt)
                  /\ heap' = [heap EXCEPT !.trans_buffer = "live"]
                  /\ heap_size' = [heap_size EXCEPT !.trans_buffer = TRANS_BUFFER_LEN]
                  /\ IF devret # ESP_OK
                       THEN /\ Raise("RuntimeError: Failed adding SPI device")
                            /\ hw' = [hw EXCEPT !.bus = "init"]
                            /\ attrs' = attrs \cup {"trans_buffer"}
                            /\ UNCHANGED spi
                       ELSE /\ hw' = [bus |-> "init", dev |-> "attached"]
                            /\ spi' = Ptr
                            /\ attrs' = attrs \cup {"trans_buffer", "spi"}
                            /\ pc' = "ctor_drv"
                            /\ UNCHANGED err
    /\ UNCHANGED <<cfg, init_cmds, rotation, buf1, buf2, tbuf, spihost, registered,
                   flushing, nready, trans, dmaq, results, dc, area, color_p, cmd_idx, trace,
                   fault, deinitCalls, userVars, disp_buf, initVars, accVars, clockVars>>

\* Lines 131-141: fill the driver structure, then check the rotation.
ctor_rotation ==
    /\ pc = "ctor_drv"
    /\ IF cfg.rotation \notin DOMAIN ROTATE
         THEN Raise("RuntimeError: Rotation must be 0, 90, 180 or 270.") /\ UNCHANGED <<rotation, attrs>>
         ELSE /\ rotation' = ROTATE[cfg.rotation]
              /\ attrs' = attrs \cup {"rotation"}
              /\ pc' = "ctor_table"
              /\ UNCHANGED err
    /\ UNCHANGED <<cfg, faults, init_cmds, buf1, buf2, trans_buffer, tbuf, heap, spi, spihost,
                   hw, lvesp32, registered, flushing, nready, trans, dmaq, results, dc,
                   area, color_p, cmd_idx, trace, fault, deinitCalls,
                   userVars, ctorVars, initVars, accVars, clockVars>>

\* Lines 144-199: assign the command table and, if asked to, run init().
ctor_table ==
    /\ pc = "ctor_table"
    /\ init_cmds' = InitCmdsTable(rotation)
    /\ attrs' = attrs \cup {"init_cmds"}
    /\ pc' = IF cfg.initialize THEN "init_gpio" ELSE "idle"
    /\ init_kind' = IF cfg.initialize THEN "init" ELSE "none"
    /\ UNCHANGED <<cfg, faults, err, rotation, buf1, buf2, trans_buffer, tbuf, heap, spi,
                   spihost, hw, lvesp32, registered, flushing, nready, trans, dmaq,
                   results, dc, area, color_p, cmd_idx, trace, fault, deinitCalls,
                   userVars, ctorVars, waits, accVars, clockVars>>

-----------------------------------------------------------------------------
(* Interrupt context: the completion callback                              *)

\* Cycles that may pass between two reads of the counter.
Deltas == IF ticks > 0 THEN {0, 9376, Half32} ELSE {0}

Cost(d) == IF d = 0 THEN 0 ELSE 1

\* The counter d cycles after it stood at c.
Advance(c, d) == (c + d) % Wrap32

\* The int_val of a C_Pointer that get_ccount has filled with c.
IntVal(c) == IF int_signed /\ c >= Half32 THEN c - Wrap32 ELSE c

\* A flush_isr that also hands post_isr to the scheduler (lines 293-298,
\* which the source has as comments).
flush_isr_scheduling ==
    /\ flushing' = FALSE
    /\ nready' = nready + 1
    /\ isr_log' = <<"disp_drv.flush_ready", "esp.get_ccount", "micropython.schedule">>
    /\ \E d \in Deltas :
         /\ ccount' = Advance(ccount, d)
         /\ ticks' = ticks - Cost(d)
         /\ end_time' = IntVal(ccount')
         /\ lap' = [lap EXCEPT !.done = ccount', !.pending = TRUE]

\* Lines 288-291: flush_isr tells the framework the buffer is free again
\* and takes the time of the completion.
flush_isr ==
    /\ flushing' = FALSE
    /\ nready' = nready + 1
    /\ isr_log' = <<"disp_drv.flush_ready", "esp.get_ccount">>
    /\ \E d \in Deltas :
         /\ ccount' = Advance(ccount, d)
         /\ ticks' = ticks - Cost(d)
         /\ end_time' = IntVal(ccount')
         /\ lap' = [lap EXCEPT !.done = ccount', !.pending = TRUE]

\* espidf's ex_spi_post_cb_isr, installed as devcfg.post_cb (line 244): runs
\* after every transaction and calls the callback its user field names.
ex_spi_post_cb_isr(t) ==
    IF t.user = "spi_callbacks" THEN flush_isr ELSE UNCHANGED isrVars

-----------------------------------------------------------------------------
(* Transaction protocol                                                    *)

\* What the controller takes the bytes of a blocking transfer for.
BusOp(level) == IF level = 0 THEN "cmd" ELSE "data"

\* A blocking send that routes its completion to the flush callback as well.
spi_send_user_callbacks == "spi_callbacks"

\* Line 363: the user field spi_send gives the transaction.
spi_send_user == None

\* Line 369: the user field spi_send_dma gives the transaction.
spi_send_dma_user == "spi_callbacks"

\* Lines 360-364: blocking send of the first n bytes of the scratch buffer.
\* The return code of spi_device_polling_transmit is dropped.
spi_send(n, ret) ==
    LET t == [length |-> n * 8, tx_buffer |-> "trans_buffer", user |-> spi_send_user] IN
    /\ trans' = t
    /\ IF ret = ESP_OK
         THEN /\ trace' = Append(trace, Ev(BusOp(dc'), SubSeq(tbuf', 1, n)))
              /\ ex_spi_post_cb_isr(t)
         ELSE UNCHANGED <<trace, isrVars>>
    /\ UNCHANGED <<dmaq, results>>

\* A queued send that reports the flush ready as soon as it is queued.
spi_send_dma_ready_at_queue(n, b, ret) ==
    /\ Len(dmaq) < QueueSize
    /\ trans' = [length |-> n * 8, tx_buffer |-> b, user |-> spi_send_dma_user]
    /\ IF ret = ESP_OK
         THEN /\ dmaq' = Append(dmaq, [len |-> n, buf |-> b])
              /\ trace' = Append(trace, Ev("dma", <<n>>))
         ELSE UNCHANGED <<dmaq, trace>>
    /\ flushing' = FALSE
    /\ nready' = nready + 1
    /\ UNCHANGED results

\* Lines 366-370: queue n bytes of pixel buffer b for DMA and return.
\* The return code of spi_device_queue_trans is dropped.
spi_send_dma(n, b, ret) ==
    /\ Len(dmaq) < QueueSize
    /\ trans' = [length |-> n * 8, tx_buffer |-> b, user |-> spi_send_dma_user]
    /\ IF ret = ESP_OK
         THEN /\ dmaq' = Append(dmaq, [len |-> n, buf |-> b])
              /\ trace' = Append(trace, Ev("dma", <<n>>))
         ELSE UNCHANGED <<dmaq, trace>>
    /\ UNCHANGED <<flushing, nready, results>>

\* Lines 375-378.
send_cmd(cmd, ret) ==
    /\ dc' = 0
    /\ tbuf' = [tbuf EXCEPT ![1] = cmd]
    /\ spi_send(1, ret)
    /\ UNCHANGED err

\* A send_data that turns away a payload that just fills the scratch buffer.
send_data_rejects_full(data, ret) ==
    /\ dc' = 1
    /\ IF Len(data) >= TRANS_BUFFER_LEN
         THEN /\ err' = "RuntimeError: Data too long, please use DMA!"
              /\ UNCHANGED <<tbuf, trans, trace, isrVars, dmaq, results>>
         ELSE /\ tbuf' = [i \in 1..TRANS_BUFFER_LEN |->
                            IF i <= Len(data) THEN data[i] ELSE tbuf[i]]
              /\ spi_send(Len(data), ret)
              /\ UNCHANGED err

\* A send_data whose limit is the four bytes of the word view.
send_data_word_limit(data, ret) ==
    /\ dc' = 1
    /\ IF Len(data) > 4
         THEN /\ err' = "RuntimeError: Data too long, please use DMA!"
              /\ UNCHANGED <<tbuf, trans, trace, isrVars, dmaq, results>>
         ELSE /\ tbuf' = [i \in 1..TRANS_BUFFER_LEN |->
                            IF i <= Len(data) THEN data[i] ELSE tbuf[i]]
              /\ spi_send(Len(data), ret)
              /\ UNCHANGED err

\* Lines 380-385: data longer than the scratch buffer raises before any
\* transfer; otherwise it is copied into the scratch buffer and sent.
send_data(data, ret) ==
    /\ dc' = 1
    /\ IF Len(data) > TRANS_BUFFER_LEN
         THEN /\ err' = "RuntimeError: Data too long, please use DMA!"
              /\ UNCHANGED <<tbuf, trans, trace, isrVars, dmaq, results>>
         ELSE /\ tbuf' = [i \in 1..TRANS_BUFFER_LEN |->
                            IF i <= Len(data) THEN data[i] ELSE tbuf[i]]
              /\ spi_send(Len(data), ret)
              /\ UNCHANGED err

\* A word send that leaves the select line where the last send put it.
send_trans_word_keeps_level(w, ret) ==
    /\ dc' = dc
    /\ tbuf' = [i \in 1..TRANS_BUFFER_LEN |-> IF i <= 4 THEN w[i] ELSE tbuf[i]]
    /\ spi_send(4, ret)
    /\ UNCHANGED err

\* Lines 387-389: send the four bytes of word_trans_data, which the caller
\* has written (w); word_trans_data is a view of the scratch buffer.
send_trans_word(w, ret) ==
    /\ dc' = 1
    /\ tbuf' = [i \in 1..TRANS_BUFFER_LEN |-> IF i <= 4 THEN w[i] ELSE tbuf[i]]
    /\ spi_send(4, ret)
    /\ UNCHANGED err

\* Lines 391-393.
send_data_dma(n, b, ret) ==
    /\ dc' = 1
    /\ spi_send_dma(n, b, ret)
    /\ UNCHANGED <<tbuf, err>>

\* The variables no send touches.
sendFrame == <<cfg, attrs, init_cmds, rotation, buf1, buf2, trans_buffer, heap, spi,
               spihost, hw, lvesp32, registered, deinitCalls, userVars, ctorVars, initVars>>

\* The payloads a caller hands to send_data: one byte, as many bytes as the
\* scratch buffer holds, and one more than that.
Payloads ==
    {<<165>>, [i \in 1..TRANS_BUFFER_LEN |-> i], [i \in 1..(TRANS_BUFFER_LEN + 1) |-> 100 + i]}

\* send_data(data) called by the user of the driver, with the bus at rest.
send_data_call ==
    /\ pc = "idle"
    /\ spi # None /\ trans_buffer # None
    /\ dmaq = <<>> /\ ~flushing
    /\ \E data \in Payloads : payload' = data
    /\ trace' = <<>>
    /\ pc' = "send_data"
    /\ UNCHANGED <<cfg, faults, err, attrs, init_cmds, rotation, buf1, buf2, trans_buffer,
                   tbuf, heap, spi, spihost, hw, lvesp32, registered, trans, dmaq, results,
                   dc, area, color_p, cmd_idx, fault, deinitCalls, isrVars, accVars,
                   ctorVars, initVars, int_signed, monitor_acc_time, monitor_acc_px,
                   monitor_count, stat_ret>>

\* Lines 380-385, run for the user's call.
send_data_body ==
    /\ pc = "send_data"
    /\ \E ret \in Rets :
         /\ send_data(payload, ret)
         /\ faults' = IF Len(payload) > TRANS_BUFFER_LEN THEN faults ELSE Reported(ret)
    /\ pc' = "send_data_ret"
    /\ UNCHANGED <<sendFrame, area, color_p, cmd_idx, fault, accVars>>

\* send_data returns, or its exception reaches the caller.
send_data_return ==
    /\ pc = "send_data_ret"
    /\ pc' = "idle"
    /\ payload' = <<>>
    /\ err' = None
    /\ trace' = <<>>
    /\ UNCHANGED <<cfg, faults, attrs, init_cmds, rotation, buf1, buf2, trans_buffer,
                   tbuf, heap, spi, spihost, hw, lvesp32, registered, trans, dmaq, results,
                   dc, area, color_p, cmd_idx, fault, deinitCalls, isrVars, accVars,
                   ctorVars, initVars, int_signed, monitor_acc_time, monitor_acc_px,
                   monitor_count, stat_ret>>

\* The variables a step without a transfer leaves alone.
idleBus == <<tbuf, trans, dmaq, results, dc, isrVars, accVars>>

-----------------------------------------------------------------------------
(* GC9A01._init, run by init()                                             *)

gpio_set_level(pin, level) == Ev("gpio", <<pin, level>>)
sleep_func(ms) == Ev("wait", <<ms>>)

\* How a wait of ms milliseconds that _init asks for is served: init() takes
\* it from the generator and sleeps, init_async() awaits uasyncio.sleep_ms.
Served(ms) ==
    Ev(IF init_kind = "init_async" THEN "uasyncio.sleep_ms" ELSE "utime.sleep_ms", <<ms>>)

initFrame == <<cfg, faults, err, attrs, init_cmds, rotation, buf1, buf2, trans_buffer, heap, spi,
               spihost, hw, lvesp32, area, color_p, fault, deinitCalls, userVars, ctorVars>>

\* init() called by the user after GC9A01(initialize=False).
init_call ==
    /\ pc = "idle"
    /\ "init_cmds" \in attrs /\ ~registered /\ deinitCalls = 0
    /\ \E kind \in {"init", "init_async"} : init_kind' = kind
    /\ pc' = "init_gpio"
    /\ UNCHANGED <<initFrame, idleBus, registered, cmd_idx, trace, waits>>

\* Lines 401-409: select the pads and set the directions.
init_gpio ==
    /\ pc = "init_gpio"
    /\ pc' = "init_power"
    /\ UNCHANGED <<initFrame, idleBus, registered, cmd_idx, trace, initVars>>

\* Lines 413-415.
init_power ==
    /\ pc = "init_power"
    /\ trace' = IF cfg.power # NoPin
                  THEN trace \o <<gpio_set_level(cfg.power, cfg.power_on), sleep_func(100)>>
                  ELSE trace
    /\ waits' = IF cfg.power # NoPin THEN Append(waits, Served(100)) ELSE waits
    /\ pc' = "init_reset"
    /\ UNCHANGED <<initFrame, idleBus, registered, cmd_idx, init_kind>>

\* A reset pulse with the two levels exchanged.
init_reset_inverted ==
    /\ pc = "init_reset"
    /\ trace' = IF cfg.rst # NoPin
                  THEN trace \o <<gpio_set_level(cfg.rst, 1), sleep_func(100),
                                  gpio_set_level(cfg.rst, 0), sleep_func(100)>>
                  ELSE trace
    /\ waits' = IF cfg.rst # NoPin THEN waits \o <<Served(100), Served(100)>> ELSE waits
    /\ cmd_idx' = 1
    /\ pc' = "init_cmd"
    /\ UNCHANGED <<initFrame, idleBus, registered, init_kind>>

\* Lines 419-423.
init_reset ==
    /\ pc = "init_reset"
    /\ trace' = IF cfg.rst # NoPin
                  THEN trace \o <<gpio_set_level(cfg.rst, 0), sleep_func(100),
                                  gpio_set_level(cfg.rst, 1), sleep_func(100)>>
                  ELSE trace
    /\ waits' = IF cfg.rst # NoPin THEN waits \o <<Served(100), Served(100)>> ELSE waits
    /\ cmd_idx' = 1
    /\ pc' = "init_cmd"
    /\ UNCHANGED <<initFrame, idleBus, registered, init_kind>>

\* Line 427: the loop head.
init_loop ==
    /\ pc = "init_cmd"
    /\ cmd_idx > Len(init_cmds)
    /\ pc' = "init_backlight"
    /\ UNCHANGED <<initFrame, idleBus, registered, cmd_idx, trace, initVars>>

\* Line 428.
init_send_cmd ==
    /\ pc = "init_cmd"
    /\ cmd_idx <= Len(init_cmds)
    /\ \E ret \in Rets :
         /\ send_cmd(init_cmds[cmd_idx].cmd, ret)
         /\ fault' = [fault EXCEPT !.init = @ \/ ret # ESP_OK]
         /\ faults' = Reported(ret)
    /\ pc' = "init_data"
    /\ UNCHANGED <<sendFrame, area, color_p, cmd_idx, accVars>>

\* Lines 429-430.
init_send_data ==
    /\ pc = "init_data"
    /\ IF "data" \in DOMAIN init_cmds[cmd_idx]
         THEN \E ret \in Rets :
                /\ send_data(init_cmds[cmd_idx].data, ret)
                /\ fault' = [fault EXCEPT !.init = @ \/ ret # ESP_OK]
                /\ faults' = Reported(ret)
                /\ pc' = IF err' # None THEN "failed" ELSE "init_delay"
         ELSE /\ pc' = "init_delay"
              /\ UNCHANGED <<idleBus, err, trace, fault, faults>>
    /\ UNCHANGED <<sendFrame, area, color_p, cmd_idx, accVars>>

\* A cooperative run that goes on without awaiting the delay of a command.
init_delay_async_unawaited ==
    /\ pc = "init_delay"
    /\ IF "delay" \in DOMAIN init_cmds[cmd_idx] /\ init_kind # "init_async"
         THEN /\ trace' = Append(trace, sleep_func(init_cmds[cmd_idx].delay))
              /\ waits' = Append(waits, Served(init_cmds[cmd_idx].delay))
         ELSE UNCHANGED <<trace, waits>>
    /\ cmd_idx' = cmd_idx + 1
    /\ pc' = "init_cmd"
    /\ UNCHANGED <<initFrame, idleBus, registered, init_kind>>

\* Lines 431-432.
init_delay ==
    /\ pc = "init_delay"
    /\ trace' = IF "delay" \in DOMAIN init_cmds[cmd_idx]
                  THEN Append(trace, sleep_func(init_cmds[cmd_idx].delay))
                  ELSE trace
    /\ waits' = IF "delay" \in DOMAIN init_cmds[cmd_idx]
                  THEN Append(waits, Served(init_cmds[cmd_idx].delay))
                  ELSE waits
    /\ cmd_idx' = cmd_idx + 1
    /\ pc' = "init_cmd"
    /\ UNCHANGED <<initFrame, idleBus, registered, init_kind>>

\* Lines 438-440.
init_backlight ==
    /\ pc = "init_backlight"
    /\ trace' = IF cfg.backlight # NoPin
                  THEN Append(trace, gpio_set_level(cfg.backlight, cfg.backlight_on))
                  ELSE trace
    /\ pc' = "init_register"
    /\ UNCHANGED <<initFrame, idleBus, registered, cmd_idx, initVars>>

\* Line 443.
init_register ==
    /\ pc = "init_register"
    /\ registered' = TRUE
    /\ trace' = Append(trace, Ev("register", <<>>))
    /\ pc' = "init_ret"
    /\ UNCHANGED <<initFrame, idleBus, cmd_idx, initVars>>

\* _init returns to init(), init() to its caller.
init_return ==
    /\ pc = "init_ret"
    /\ pc' = "idle"
    /\ trace' = <<>>
    /\ cmd_idx' = 0
    /\ init_kind' = "none"
    /\ waits' = <<>>
    /\ UNCHANGED <<initFrame, idleBus, registered>>

-----------------------------------------------------------------------------
(* GC9A01.flush, called by the graphics framework                          *)

\* The areas the framework asks for: within the panel, x1 <= x2, y1 <= y2.
Areas ==
    LET W == cfg.width
        H == cfg.height
        all == {Rect(0, 0, W - 1, H - 1), Rect(0, 0, 0, 0), Rect(W - 1, H - 1, W - 1, H - 1),
                Rect(0, 1, W - 1, 1), Rect(1, 2, W - 2, H - 3)}
    IN {r \in all : /\ 0 <= r.x1 /\ r.x1 <= r.x2 /\ r.x2 < W
                     /\ 0 <= r.y1 /\ r.y1 <= r.y2 /\ r.y2 < H}

\* The pixel buffers the framework renders into.
PixelBuffers == {b \in {"buf1", "buf2"} : heap[b] = "live"}

\* The window written low byte first.
WordBytes_little_endian(lo, hi) ==
    <<lo % 256, (lo \div 256) % 256, hi % 256, (hi \div 256) % 256>>

\* Lines 489-492 and 499-502: the four bytes written to word_trans_data.
WordBytes(lo, hi) ==
    <<(lo \div 256) % 256, lo % 256, (hi \div 256) % 256, hi % 256>>

\* Lines 509-510: the length in bytes of the view of color_p handed to DMA.
DataViewLen(a) == ((a.x2 - a.x1 + 1) * (a.y2 - a.y1 + 1)) * ColorSize

flushStep(next, ret) ==
    /\ pc' = next
    /\ fault' = [fault EXCEPT !.flush = @ \/ ret # ESP_OK]
    /\ faults' = Reported(ret)
    /\ UNCHANGED <<sendFrame, area, color_p, cmd_idx, accVars>>

\* The framework calls flush_cb once the previous flush has been reported
\* ready (it waits on disp_buf.flushing), and marks the buffer as in flight.
\* Lines 478-481: flush accounts for the DMA transfer of the flush before
\* and takes the time of its entry.
flush_call ==
    /\ pc = "idle"
    /\ registered
    /\ ~flushing
    /\ \E a \in Areas, b \in PixelBuffers :
         /\ area' = a
         /\ color_p' = b
    /\ flushing' = TRUE
    /\ nready' = 0
    /\ trace' = <<>>
    /\ fault' = [fault EXCEPT !.flush = FALSE]
    /\ pc' = "flush_col_cmd"
    /\ flush_acc_dma_cycles' =
          IF end_time # 0 /\ end_time > start_time
            THEN flush_acc_dma_cycles + (end_time - start_time)
            ELSE flush_acc_dma_cycles
    /\ \E d \in Deltas :
         /\ ccount' = Advance(ccount, d)
         /\ ticks' = ticks - Cost(d)
         /\ start_time' = IntVal(ccount')
         /\ lap' = [lap EXCEPT !.entry = ccount', !.pending = FALSE]
    /\ UNCHANGED <<sendFrame, faults, err, tbuf, trans, dmaq, results, dc, cmd_idx,
                   end_time, isr_log, flush_acc_setup_cycles>>

\* Line 487.
flush_col_cmd ==
    /\ pc = "flush_col_cmd"
    /\ \E ret \in Rets : send_cmd(SET_COLUMN, ret) /\ flushStep("flush_col_data", ret)

\* Lines 489-493.
flush_col_data ==
    /\ pc = "flush_col_data"
    /\ \E ret \in Rets :
         /\ send_trans_word(WordBytes(area.x1, area.x2), ret)
         /\ flushStep("flush_row_cmd", ret)

\* Line 497.
flush_row_cmd ==
    /\ pc = "flush_row_cmd"
    /\ \E ret \in Rets : send_cmd(SET_PAGE, ret) /\ flushStep("flush_row_data", ret)

\* Lines 499-503.
flush_row_data ==
    /\ pc = "flush_row_data"
    /\ \E ret \in Rets :
         /\ send_trans_word(WordBytes(area.y1, area.y2), ret)
         /\ flushStep("flush_ram_cmd", ret)

\* A flush that goes to the DMA transfer without the memory-write command.
flush_ram_cmd_skipped ==
    /\ pc = "flush_ram_cmd"
    /\ pc' = "flush_dma"
    /\ UNCHANGED <<sendFrame, faults, idleBus, err, area, color_p, cmd_idx, trace, fault>>

\* Line 507.
flush_ram_cmd ==
    /\ pc = "flush_ram_cmd"
    /\ \E ret \in Rets : send_cmd(WRITE_RAM, ret) /\ flushStep("flush_dma", ret)

\* A flush that does not take the time again before it queues the pixels.
flush_dma_one_reading ==
    /\ pc = "flush_dma"
    /\ \E d1 \in Deltas, d2 \in Deltas :
         LET c1 == Advance(ccount, d1)
             c2 == Advance(c1, d2)
         IN /\ Cost(d1) + Cost(d2) <= ticks
            /\ ticks' = ticks - (Cost(d1) + Cost(d2))
            /\ end_time' = IntVal(c1)
            /\ flush_acc_setup_cycles' =
                  IF end_time' > start_time
                    THEN flush_acc_setup_cycles + (end_time' - start_time)
                    ELSE flush_acc_setup_cycles
            /\ ccount' = c2
            /\ start_time' = start_time
            /\ lap' = [lap EXCEPT !.mark = c1, !.issue = c2]
    /\ \E ret \in Rets :
         /\ send_data_dma(DataViewLen(area), color_p, ret)
         /\ pc' = "flush_ret"
         /\ fault' = [fault EXCEPT !.flush = @ \/ ret # ESP_OK]
         /\ faults' = Reported(ret)
    /\ UNCHANGED <<sendFrame, area, color_p, cmd_idx, isr_log, flush_acc_dma_cycles>>

\* Lines 509-517: take the time, account for the setup, take the time
\* again and queue the pixels.
flush_dma ==
    /\ pc = "flush_dma"
    /\ \E d1 \in Deltas, d2 \in Deltas :
         LET c1 == Advance(ccount, d1)
             c2 == Advance(c1, d2)
         IN /\ Cost(d1) + Cost(d2) <= ticks
            /\ ticks' = ticks - (Cost(d1) + Cost(d2))
            /\ end_time' = IntVal(c1)
            /\ flush_acc_setup_cycles' =
                  IF end_time' > start_time
                    THEN flush_acc_setup_cycles + (end_time' - start_time)
                    ELSE flush_acc_setup_cycles
            /\ ccount' = c2
            /\ start_time' = IntVal(c2)
            /\ lap' = [lap EXCEPT !.mark = c1, !.issue = c2]
    /\ \E ret \in Rets :
         /\ send_data_dma(DataViewLen(area), color_p, ret)
         /\ pc' = "flush_ret"
         /\ fault' = [fault EXCEPT !.flush = @ \/ ret # ESP_OK]
         /\ faults' = Reported(ret)
    /\ UNCHANGED <<sendFrame, area, color_p, cmd_idx, isr_log, flush_acc_dma_cycles>>

\* flush returns to the framework; it raises nothing.
flush_return ==
    /\ pc = "flush_ret"
    /\ pc' = "idle"
    /\ area' = NoArea
    /\ color_p' = None
    /\ trace' = <<>>
    /\ UNCHANGED <<sendFrame, faults, idleBus, err, cmd_idx, fault>>

-----------------------------------------------------------------------------
(* SPI peripheral: completion of a queued transaction (interrupt)          *)

Min(a, b) == IF a < b THEN a ELSE b

\* The head of the queue has been clocked out: the driver's post callback
\* runs on the transaction descriptor (the queue holds a pointer to the one
\* self.trans), then the result is queued for spi_device_get_trans_result.
DmaComplete ==
    /\ dmaq # <<>>
    /\ dmaq' = Tail(dmaq)
    /\ results' = Min(results + 1, QueueSize)
    /\ ex_spi_post_cb_isr(trans)
    /\ UNCHANGED <<sendFrame, faults, pc, err, tbuf, trans, dc, area, color_p, cmd_idx,
                   trace, fault, accVars>>

-----------------------------------------------------------------------------
(* GC9A01.deinit                                                           *)

deinitFrame == <<cfg, faults, err, attrs, init_cmds, rotation, tbuf, trans, dmaq, dc, flushing,
                 nready, area, color_p, cmd_idx, fault, userVars, ctorVars, initVars,
                 accVars, clockVars>>

\* heap_caps_free of block b.
heap_caps_free(b) ==
    [heap EXCEPT ![b] = IF @ = "live" THEN "freed" ELSE "double_free"]

\* deinit() is called (by the user, or by the finalizer on soft reset).
deinit_call ==
    /\ pc = "idle"
    /\ deinitCalls < MaxDeinit
    /\ deinitCalls' = deinitCalls + 1
    /\ trace' = <<>>
    /\ pc' = "deinit_remove"
    /\ UNCHANGED <<deinitFrame, buf1, buf2, trans_buffer, heap, spi, spihost, hw, lvesp32,
                   registered, results>>

\* Line 313.
deinit_remove ==
    /\ pc = "deinit_remove"
    /\ registered' = FALSE
    /\ trace' = Append(trace, Ev("disp_drv.remove", <<>>))
    /\ pc' = "deinit_lvesp32"
    /\ UNCHANGED <<deinitFrame, buf1, buf2, trans_buffer, heap, spi, spihost, hw, lvesp32,
                   results, deinitCalls>>

\* A teardown that goes from the event loop straight to the buffers.
deinit_lvesp32_then_buffers ==
    /\ pc = "deinit_lvesp32"
    /\ IF ~cfg.asynchronous
         THEN /\ lvesp32' = "stopped"
              /\ trace' = Append(trace, Ev("lvesp32.deinit", <<>>))
         ELSE UNCHANGED <<lvesp32, trace>>
    /\ pc' = "deinit_buf1"
    /\ UNCHANGED <<deinitFrame, buf1, buf2, trans_buffer, heap, spi, spihost, hw,
                   registered, results, deinitCalls>>

\* Lines 317-319.
deinit_lvesp32 ==
    /\ pc = "deinit_lvesp32"
    /\ IF ~cfg.asynchronous
         THEN /\ lvesp32' = "stopped"
              /\ trace' = Append(trace, Ev("lvesp32.deinit", <<>>))
         ELSE UNCHANGED <<lvesp32, trace>>
    /\ pc' = IF spi # None THEN "deinit_poll" ELSE "deinit_buf1"
    /\ UNCHANGED <<deinitFrame, buf1, buf2, trans_buffer, heap, spi, spihost, hw,
                   registered, results, deinitCalls>>

\* Lines 325-327: one spi_device_get_trans_result(..., 1). It gives ESP_OK
\* with a completed result if there is one, and times out after one tick
\* otherwise, whether or not a transaction is still being clocked out.
deinit_poll ==
    /\ pc = "deinit_poll"
    /\ LET ret == IF results > 0 THEN ESP_OK ELSE ESP_ERR_TIMEOUT IN
         /\ results' = IF ret = ESP_OK THEN results - 1 ELSE results
         /\ trace' = Append(trace, Ev("spi_device_get_trans_result", <<ret>>))
         /\ pc' = IF ret = ESP_OK THEN "deinit_poll" ELSE "deinit_remove_device"
    /\ UNCHANGED <<deinitFrame, buf1, buf2, trans_buffer, heap, spi, spihost, hw, lvesp32,
                   registered, deinitCalls>>

\* Lines 331-332.
deinit_remove_device ==
    /\ pc = "deinit_remove_device"
    /\ hw' = [hw EXCEPT !.dev = IF @ = "attached" THEN "removed" ELSE "double_remove"]
    /\ spi' = None
    /\ trace' = Append(trace, Ev("spi_bus_remove_device", <<>>))
    /\ pc' = "deinit_bus_free"
    /\ UNCHANGED <<deinitFrame, buf1, buf2, trans_buffer, heap, spihost, lvesp32,
                   registered, results, deinitCalls>>

\* Lines 336-337.
deinit_bus_free ==
    /\ pc = "deinit_bus_free"
    /\ hw' = [hw EXCEPT !.bus = IF @ = "init" THEN "freed" ELSE "double_free"]
    /\ spihost' = None
    /\ trace' = Append(trace, Ev("spi_bus_free", <<>>))
    /\ pc' = "deinit_buf1"
    /\ UNCHANGED <<deinitFrame, buf1, buf2, trans_buffer, heap, spi, lvesp32,
                   registered, results, deinitCalls>>

\* Lines 341-343.
deinit_buf1 ==
    /\ pc = "deinit_buf1"
    /\ IF buf1 # None
         THEN /\ heap' = heap_caps_free("buf1")
              /\ buf1' = None
              /\ trace' = Append(trace, Ev("heap_caps_free(buf1)", <<>>))
         ELSE UNCHANGED <<heap, buf1, trace>>
    /\ pc' = "deinit_buf2"
    /\ UNCHANGED <<deinitFrame, buf2, trans_buffer, spi, spihost, hw, lvesp32,
                   registered, results, deinitCalls>>

\* Lines 345-347.
deinit_buf2 ==
    /\ pc = "deinit_buf2"
    /\ IF buf2 # None
         THEN /\ heap' = heap_caps_free("buf2")
              /\ buf2' = None
              /\ trace' = Append(trace, Ev("heap_caps_free(buf2)", <<>>))
         ELSE UNCHANGED <<heap, buf2, trace>>
    /\ pc' = "deinit_trans_buffer"
    /\ UNCHANGED <<deinitFrame, buf1, trans_buffer, spi, spihost, hw, lvesp32,
                   registered, results, deinitCalls>>

\* Lines 349-351.
deinit_trans_buffer ==
    /\ pc = "deinit_trans_buffer"
    /\ IF trans_buffer # None
         THEN /\ heap' = heap_caps_free("trans_buffer")
              /\ trans_buffer' = None
              /\ trace' = Append(trace, Ev("heap_caps_free(trans_buffer)", <<>>))
         ELSE UNCHANGED <<heap, trans_buffer, trace>>
    /\ pc' = "deinit_ret"
    /\ UNCHANGED <<deinitFrame, buf1, buf2, spi, spihost, hw, lvesp32, registered,
                   results, deinitCalls>>

\* deinit returns.
deinit_return ==
    /\ pc = "deinit_ret"
    /\ pc' = "idle"
    /\ trace' = <<>>
    /\ UNCHANGED <<deinitFrame, buf1, buf2, trans_buffer, heap, spi, spihost, hw, lvesp32,
                   registered, results, deinitCalls>>

-----------------------------------------------------------------------------
(* Performance monitor                                                     *)

\* The (time, px) pairs the framework reports for its refreshes.
MonitorSamples == {<<3, 100>>, <<4, 57600>>}

\* Lines 527-530: monitor_cb, called by the framework after a refresh.
monitor ==
    /\ pc = "idle"
    /\ registered
    /\ monitor_count < MaxSamples
    /\ \E m \in MonitorSamples :
         /\ monitor_acc_time' = monitor_acc_time + m[1]
         /\ monitor_acc_px' = monitor_acc_px + m[2]
    /\ monitor_count' = monitor_count + 1
    /\ UNCHANGED <<coreVars, pc, isrVars, accVars, ctorVars, initVars, payload, int_signed,
                   stat_ret>>

\* A stat() whose setup time is that of all the samples together.
stat_setup_total ==
    /\ pc = "idle"
    /\ IF monitor_count = 0
         THEN /\ stat_ret' = [NoStat EXCEPT !.ret = "None"]
              /\ UNCHANGED <<monitor_acc_time, monitor_acc_px, monitor_count,
                             flush_acc_setup_cycles, flush_acc_dma_cycles>>
         ELSE /\ stat_ret' =
                    [ret |-> "tuple",
                     time |-> monitor_acc_time \div monitor_count,
                     setup |-> flush_acc_setup_cycles \div cycles_in_ms,
                     dma |-> flush_acc_dma_cycles \div (monitor_count * cycles_in_ms),
                     px |-> monitor_acc_px \div monitor_count]
              /\ monitor_acc_time' = 0
              /\ monitor_acc_px' = 0
              /\ monitor_count' = 0
              /\ flush_acc_setup_cycles' = 0
              /\ flush_acc_dma_cycles' = 0
    /\ pc' = "stat_ret"
    /\ UNCHANGED <<coreVars, isrVars, start_time, ctorVars, initVars, payload, int_signed>>

\* Lines 532-547: stat().
stat ==
    /\ pc = "idle"
    /\ IF monitor_count = 0
         THEN /\ stat_ret' = [NoStat EXCEPT !.ret = "None"]
              /\ UNCHANGED <<monitor_acc_time, monitor_acc_px, monitor_count,
                             flush_acc_setup_cycles, flush_acc_dma_cycles>>
         ELSE /\ stat_ret' =
                    [ret |-> "tuple",
                     time |-> monitor_acc_time \div monitor_count,
                     setup |-> flush_acc_setup_cycles \div (monitor_count * cycles_in_ms),
                     dma |-> flush_acc_dma_cycles \div (monitor_count * cycles_in_ms),
                     px |-> monitor_acc_px \div monitor_count]
              /\ monitor_acc_time' = 0
              /\ monitor_acc_px' = 0
              /\ monitor_count' = 0
              /\ flush_acc_setup_cycles' = 0
              /\ flush_acc_dma_cycles' = 0
    /\ pc' = "stat_ret"
    /\ UNCHANGED <<coreVars, isrVars, start_time, ctorVars, initVars, payload, int_signed>>

\* stat returns to its caller.
stat_return ==
    /\ pc = "stat_ret"
    /\ pc' = "idle"
    /\ stat_ret' = NoStat
    /\ UNCHANGED <<coreVars, isrVars, accVars, ctorVars, initVars, payload, int_signed,
                   monitor_acc_time, monitor_acc_px, monitor_count>>

-----------------------------------------------------------------------------

Next ==
    \/ ctor_invert \/ ctor_alloc \/ disp_spi_init \/ ctor_rotation \/ ctor_table
    \/ init_call \/ init_gpio \/ init_power \/ init_reset \/ init_loop
    \/ init_send_cmd \/ init_send_data \/ init_delay \/ init_backlight
    \/ init_register \/ init_return
    \/ flush_call \/ flush_col_cmd \/ flush_col_data \/ flush_row_cmd
    \/ flush_row_data \/ flush_ram_cmd \/ flush_dma \/ flush_return
    \/ DmaComplete
    \/ deinit_call \/ deinit_remove \/ deinit_lvesp32 \/ deinit_poll
    \/ deinit_remove_device \/ deinit_bus_free \/ deinit_buf1 \/ deinit_buf2
    \/ deinit_trans_buffer \/ deinit_return
    \/ send_data_call \/ send_data_body \/ send_data_return

Spec == Init /\ [][Next]_vars

SpecFault == InitFault /\ [][Next]_vars

\* The driver with its performance monitor and a running cycle counter.
NextPerf ==
    \/ ctor_invert \/ ctor_alloc \/ disp_spi_init \/ ctor_rotation \/ ctor_table
    \/ init_gpio \/ init_power \/ init_reset \/ init_loop
    \/ init_send_cmd \/ init_send_data \/ init_delay \/ init_backlight
    \/ init_register \/ init_return
    \/ flush_call \/ flush_col_cmd \/ flush_col_data \/ flush_row_cmd
    \/ flush_row_data \/ flush_ram_cmd \/ flush_dma \/ flush_return
    \/ DmaComplete
    \/ monitor \/ stat \/ stat_return

SpecPerf == InitPerf /\ [][NextPerf]_vars

\* The peripheral finishes a transfer it has been given, and the normal
\* context runs a flush call to its return.
FlushSteps ==
    \/ flush_col_cmd \/ flush_col_data \/ flush_row_cmd \/ flush_row_data
    \/ flush_ram_cmd \/ flush_dma \/ flush_return

FairSpec == Spec /\ WF_vars(DmaComplete) /\ WF_vars(FlushSteps)

\* The normal context runs _init to its return: init() drives the generator
\* with next() until StopIteration, the scheduler resumes init_async after
\* each sleep.
InitSteps ==
    \/ init_gpio \/ init_power \/ init_reset \/ init_loop \/ init_send_cmd
    \/ init_send_data \/ init_delay \/ init_backlight \/ init_register
    \/ init_return

FairInitSpec == Spec /\ WF_vars(InitSteps)


-----------------------------------------------------------------------------
(* Properties                                                              *)

FlushPcs == {"flush_col_cmd", "flush_col_data", "flush_row_cmd", "flush_row_data",
             "flush_ram_cmd", "flush_dma", "flush_ret"}

InitPcs == {"init_gpio", "init_power", "init_reset", "init_cmd", "init_data",
            "init_delay", "init_backlight", "init_register", "init_ret"}

IsByte(b) == b \in 0..255

\* d is the big-endian encoding of the pair (lo, hi), two bytes each.
IsBigEndianPair(d, lo, hi) ==
    /\ Len(d) = 4
    /\ \A k \in 1..4 : IsByte(d[k])
    /\ d[1] * 256 + d[2] = lo
    /\ d[3] * 256 + d[4] = hi

\* The data transfer that follows command c in the trace, if c was sent.
FollowsCmd(c, P(_)) ==
    \A i \in 1..Len(trace) :
        trace[i] = Ev("cmd", <<c>>) =>
            /\ i + 1 <= Len(trace)
            /\ trace[i + 1].op = "data"
            /\ P(trace[i + 1].arg)

\* C1: when a flush of a valid area has run, the data sent after 0x2A is the
\* big-endian encoding of (x1, x2), the data sent after 0x2B that of (y1, y2),
\* and the DMA transfer it queued is (x2-x1+1)*(y2-y1+1)*bytesPerPixel bytes
\* long (115200 for the whole 240x240 panel).
C1_AddressWindowAndDmaLength ==
    pc = "flush_ret" =>
        LET ColBytes(d) == IsBigEndianPair(d, area.x1, area.x2)
            RowBytes(d) == IsBigEndianPair(d, area.y1, area.y2)
            n == (area.x2 - area.x1 + 1) * (area.y2 - area.y1 + 1) * 2
        IN /\ 0 <= area.x1 /\ area.x1 <= area.x2 /\ area.x2 <= cfg.width - 1
           /\ 0 <= area.y1 /\ area.y1 <= area.y2 /\ area.y2 <= cfg.height - 1
           /\ \E i \in 1..Len(trace) : trace[i] = Ev("cmd", <<42>>)
           /\ \E i \in 1..Len(trace) : trace[i] = Ev("cmd", <<43>>)
           /\ FollowsCmd(42, ColBytes)
           /\ FollowsCmd(43, RowBytes)
           /\ trace[Len(trace)] = Ev("dma", <<n>>)
           /\ (area = Rect(0, 0, 239, 239) => n = 115200)

\* A flush of a 320-wide panel's far corner, whose column needs both bytes.
C1_Witness ==
    /\ pc = "flush_ret"
    /\ area.x1 > 255
    /\ trace[2] = Ev("data", <<1, 63, 1, 63>>)
    /\ trace[6] = Ev("dma", <<2>>)

\* C2: with the framework calling flush only after flush_ready, a flush never
\* starts a blocking transfer or queues a DMA transfer while an earlier DMA
\* transfer is outstanding, and never more than one transfer is outstanding.
C2_SingleTransactionInFlight ==
    /\ Len(dmaq) <= 1
    /\ pc \in (FlushPcs \ {"flush_ret"}) \cup InitPcs => dmaq = <<>>
    /\ dmaq # <<>> => flushing

\* A later flush about to queue its DMA transfer after an earlier one completed.
C2_Witness ==
    /\ pc = "flush_dma"
    /\ results >= 1
    /\ dmaq = <<>>

\* C3: every flush call gets exactly one flush_ready: none from the blocking
\* transfers of the flush or of initialization, one from the completion of its
\* DMA transfer, never a second one, and the one is eventually delivered.
C3_ExactlyOneFlushReady ==
    /\ [](/\ nready <= 1
          /\ flushing <=> (pc \in FlushPcs \ {"flush_ret"} \/ dmaq # <<>>)
          /\ pc \in (FlushPcs \ {"flush_ret"}) \cup InitPcs => nready = 0
          /\ (nready = 1 => ~flushing))
    /\ [][nready' > nready => (dmaq # <<>> /\ dmaq' = Tail(dmaq) /\ nready' = 1)]_<<nready, dmaq>>
    /\ (flushing ~> (~flushing /\ nready = 1))

\* A flush has returned and its one notification has been delivered.
C3_Witness ==
    /\ pc = "idle"
    /\ nready = 1
    /\ ~flushing
    /\ results >= 1

\* C4: within a flush the bus sees 0x2A, the 4-byte column window, 0x2B, the
\* 4-byte row window, 0x2C and then the DMA transfer, in this order and with
\* nothing else; the five blocking transfers are done when the DMA is queued.
C4_FlushSequence ==
    pc \in FlushPcs =>
        LET ops == <<"cmd", "data", "cmd", "data", "cmd", "dma">>
            done == CASE pc = "flush_col_cmd" -> 0
                      [] pc = "flush_col_data" -> 1
                      [] pc = "flush_row_cmd" -> 2
                      [] pc = "flush_row_data" -> 3
                      [] pc = "flush_ram_cmd" -> 4
                      [] pc = "flush_dma" -> 5
                      [] pc = "flush_ret" -> 6
        IN /\ Len(trace) = done
           /\ \A i \in 1..Len(trace) : trace[i].op = ops[i]
           /\ done >= 1 => trace[1].arg = <<42>>
           /\ done >= 2 => Len(trace[2].arg) = 4
           /\ done >= 3 => trace[3].arg = <<43>>
           /\ done >= 4 => Len(trace[4].arg) = 4
           /\ done >= 5 => trace[5].arg = <<44>>
           /\ done < 6 => dmaq = <<>>

\* The whole sequence of a flush that follows an earlier, completed one.
C4_Witness ==
    /\ pc = "flush_ret"
    /\ Len(trace) = 6
    /\ trace[5] = Ev("cmd", <<44>>)
    /\ trace[6].op = "dma"
    /\ dmaq # <<>>
    /\ results >= 1

\* C5: no pixel buffer is freed while a queued transaction that references it
\* is outstanding, however long the transfer takes.
C5_NoFreeWhileOutstanding ==
    \A i \in 1..Len(dmaq) : heap[dmaq[i].buf] = "live"

\* C6: a second deinit() after a completed first one does nothing: no release,
\* no deregistration, no scheduler stop, no queue drain.
C6_SecondDeinitNoOp ==
    (pc = "deinit_ret" /\ deinitCalls >= 2) => trace = <<>>

\* C7: a transport failure is never swallowed: a failed transmit aborts
\* initialization with an error on the spot, and a failed transmit or queue
\* submission makes flush report a failure to its caller.
C7_FailureNotSwallowed ==
    /\ fault.init => (pc = "failed" /\ err # None)
    /\ (pc = "flush_ret" /\ fault.flush) => err # None

\* C8: with invert set construction succeeds and the table ends with the
\* inversion command 0x21; without it the table has no appended entry.
C8_InvertAppended ==
    /\ cfg.invert => err # "AttributeError"
    /\ "init_cmds" \in attrs =>
          IF cfg.invert
            THEN init_cmds[Len(init_cmds)] = [cmd |-> 33]
            ELSE Len(init_cmds) = 51

\* The values documented for the memory-access-control setting.
C9_Documented == (0 :> 24) @@ (90 :> 40) @@ (180 :> 72) @@ (270 :> 136)

\* C9: for rotation 0, 90, 180, 270 the table's memory-access-control command
\* (0x36) carries the documented value as its setting; any other rotation
\* fails construction with a configuration error.
C9_MadctlCarriesRotation ==
    /\ "init_cmds" \in attrs =>
          /\ cfg.rotation \in DOMAIN C9_Documented
          /\ \E i \in 1..Len(init_cmds) : init_cmds[i].cmd = 54
          /\ \A i \in 1..Len(init_cmds) :
                init_cmds[i].cmd = 54 =>
                    init_cmds[i].data = <<C9_Documented[cfg.rotation]>>
    /\ (cfg.rotation \notin DOMAIN C9_Documented /\ pc \notin {"ctor", "ctor_alloc", "ctor_spi", "ctor_drv"})
          => (pc = "failed" /\ err # None)

\* What initialization is to do for one table entry, and for a table.
C10_Entry(e) ==
    <<Ev("cmd", <<e.cmd>>)>>
    \o (IF "data" \in DOMAIN e THEN <<Ev("data", e.data)>> ELSE <<>>)
    \o (IF "delay" \in DOMAIN e THEN <<Ev("wait", <<e.delay>>)>> ELSE <<>>)

RECURSIVE C10_Table(_)
C10_Table(t) == IF t = <<>> THEN <<>> ELSE C10_Entry(Head(t)) \o C10_Table(Tail(t))

C10_Expected ==
    (IF cfg.power # NoPin
       THEN <<Ev("gpio", <<cfg.power, cfg.power_on>>), Ev("wait", <<100>>)>> ELSE <<>>)
    \o (IF cfg.rst # NoPin
          THEN <<Ev("gpio", <<cfg.rst, 0>>), Ev("wait", <<100>>),
                 Ev("gpio", <<cfg.rst, 1>>), Ev("wait", <<100>>)>> ELSE <<>>)
    \o C10_Table(init_cmds)
    \o (IF cfg.backlight # NoPin
          THEN <<Ev("gpio", <<cfg.backlight, cfg.backlight_on>>)>> ELSE <<>>)
    \o <<Ev("register", <<>>)>>

IsPrefix(s, t) == Len(s) <= Len(t) /\ SubSeq(t, 1, Len(s)) = s

\* C10: initialization powers the panel and waits, pulses reset low then high
\* with a wait after each, sends every table entry in order (command, payload,
\* delay), enables the backlight and registers the driver last; the steps of
\* an absent pin are skipped.
C10_InitOrder ==
    pc \in InitPcs =>
        /\ IsPrefix(trace, C10_Expected)
        /\ (pc = "init_ret" => trace = C10_Expected)
        /\ (registered <=> pc = "init_ret")

\* Initialization has run to its end with all three pins configured.
C10_Witness ==
    /\ pc = "init_ret"
    /\ cfg.power # NoPin /\ cfg.rst # NoPin /\ cfg.backlight # NoPin
    /\ Len(trace) = 112
    /\ trace[Len(trace)] = Ev("register", <<>>)

\* The waits among the events of a trace.
C11_Waits(t) == SelectSeq(t, LAMBDA e : e.op = "wait")

\* C11: init() and init_async() make the same GPIO writes, transfers and wait
\* requests, in the same order and with the same durations, for the same
\* configuration (the sequence depends on the configuration alone); they
\* differ only in what serves each wait, utime.sleep_ms or an awaited
\* uasyncio.sleep_ms; and both end with the driver registered.
C11_InitEquivalent ==
    pc \in InitPcs =>
        LET served == IF init_kind = "init" THEN "utime.sleep_ms" ELSE "uasyncio.sleep_ms"
            asked == C11_Waits(trace)
        IN /\ init_kind \in {"init", "init_async"}
           /\ IsPrefix(trace, C10_Expected)
           /\ Len(waits) = Len(asked)
           /\ \A i \in 1..Len(waits) : waits[i] = Ev(served, asked[i].arg)
           /\ pc = "init_ret" => (trace = C10_Expected /\ registered)

\* A cooperative initialization has run to its end, its five waits awaited.
C11_Witness ==
    /\ pc = "init_ret"
    /\ init_kind = "init_async"
    /\ registered
    /\ waits = <<Ev("uasyncio.sleep_ms", <<100>>), Ev("uasyncio.sleep_ms", <<100>>),
                 Ev("uasyncio.sleep_ms", <<100>>), Ev("uasyncio.sleep_ms", <<20>>),
                 Ev("uasyncio.sleep_ms", <<120>>)>>

\* C12: after any call of stat(), one that returns None included, the five
\* accumulators (time, pixels, samples, setup cycles, DMA cycles) are zero; a
\* call with no sample recorded returns None, and so does a call that follows
\* another with no monitor or flush call in between.
C12_StatResets ==
    /\ [](pc = "stat_ret" =>
            /\ monitor_acc_time = 0 /\ monitor_acc_px = 0 /\ monitor_count = 0
            /\ flush_acc_setup_cycles = 0 /\ flush_acc_dma_cycles = 0)
    /\ [][(pc = "idle" /\ pc' = "stat_ret" /\ monitor_count = 0)
            => stat_ret'.ret = "None"]_vars

\* C13: send_data of more than 16 bytes raises the "Data too long" error and
\* issues no transfer, leaving the scratch buffer and the transaction
\* descriptor as they were; send_data of at most 16 bytes raises nothing and
\* issues one blocking transfer of exactly the bytes given.
C13_SendDataLimit ==
    [][pc = "send_data" =>
         IF Len(payload) > 16
           THEN /\ err' = "RuntimeError: Data too long, please use DMA!"
                /\ tbuf' = tbuf /\ trans' = trans
                /\ trace' = trace /\ dmaq' = dmaq /\ results' = results
           ELSE /\ err' = None
                /\ trace' = <<Ev("data", payload)>>
                /\ trans' = [length |-> 8 * Len(payload), tx_buffer |-> "trans_buffer",
                              user |-> None]
                /\ SubSeq(tbuf', 1, Len(payload)) = payload
                /\ dmaq' = dmaq]_vars

\* A payload of 17 bytes has been turned away with nothing sent.
C13_Witness ==
    /\ pc = "send_data_ret"
    /\ Len(payload) = 17
    /\ err = "RuntimeError: Data too long, please use DMA!"
    /\ trace = <<>>

\* The constructor has got past the allocation of the pixel buffers.
C14_Allocated == pc \notin {"ctor", "ctor_alloc", "failed"} /\ deinitCalls = 0

\* C14: the buffer size is (width * height * 2) div factor, 28800 bytes for
\* the 240x240 panel with factor 4. With double_buffer and both allocations
\* successful the driver holds two distinct live blocks of that size and has
\* given both to the framework with a capacity of buf_size div 2 pixels;
\* without double_buffer it holds and has given one block and a null second
\* one; and when no buffer could be allocated construction has failed with
\* the not-enough-memory error.
C14_BufferAllocation ==
    LET size == (cfg.width * cfg.height * 2) \div cfg.factor IN
    /\ (cfg.width = 240 /\ cfg.height = 240 /\ cfg.factor = 4) => buf_size = 28800
    /\ buf_size = size
    /\ (C14_Allocated /\ cfg.double_buffer /\ buf1 # None /\ buf2 # None) =>
          /\ buf1 # buf2
          /\ heap[buf1] = "live" /\ heap[buf2] = "live"
          /\ heap_size[buf1] = size /\ heap_size[buf2] = size
          /\ disp_buf = [buf1 |-> buf1, buf2 |-> buf2, size |-> size \div 2]
    /\ (C14_Allocated /\ ~cfg.double_buffer) =>
          /\ buf1 # None /\ heap[buf1] = "live" /\ heap_size[buf1] = size
          /\ buf2 = None /\ heap.buf2 = "unalloc"
          /\ disp_buf = [buf1 |-> buf1, buf2 |-> None, size |-> size \div 2]
    /\ (pc # "ctor" /\ pc # "ctor_alloc" /\ "buf1" \in attrs /\ heap.buf1 = "unalloc") =>
          (pc = "failed" /\ err = "RuntimeError: Not enough DMA-able memory")

\* The default driver, constructed with its two buffers of 28800 bytes.
C14_Witness ==
    /\ pc = "idle"
    /\ cfg.double_buffer
    /\ buf1 = "buf1" /\ buf2 = "buf2"
    /\ heap_size.buf1 = 28800 /\ heap_size.buf2 = 28800
    /\ disp_buf.size = 14400

\* C15: every run of the completion callback makes two calls, flush_ready
\* and then get_ccount into end_time, and nothing else: the flush is marked
\* ready, the time of completion is kept, and the heap, the position and the
\* pending exception of the normal context, the scratch buffer, the
\* descriptor, the accumulators and the monitor are as they were; nothing is
\* handed to the scheduler.
C15_IsrMinimal ==
    [][nready' > nready =>
         /\ isr_log' = <<"disp_drv.flush_ready", "esp.get_ccount">>
         /\ nready' = nready + 1
         /\ ~flushing'
         /\ end_time' = IntVal(ccount')
         /\ UNCHANGED <<pc, err, heap, heap_size, buf1, buf2, trans_buffer, tbuf, trans,
                        spi, spihost, hw, lvesp32, registered, dc, trace, disp_buf,
                        start_time, flush_acc_setup_cycles, flush_acc_dma_cycles,
                        monitor_acc_time, monitor_acc_px, monitor_count, stat_ret>>]_vars

\* The callback has run while the normal context was inside stat(), after
\* the cycle counter had moved on.
C15_Witness ==
    /\ isr_log = <<"disp_drv.flush_ready", "esp.get_ccount">>
    /\ nready = 1
    /\ end_time # 0
    /\ lap.done # lap.issue
    /\ pc = "stat_ret"

DeinitPcs == {"deinit_remove", "deinit_lvesp32", "deinit_poll", "deinit_remove_device",
              "deinit_bus_free", "deinit_buf1", "deinit_buf2", "deinit_trans_buffer",
              "deinit_ret"}

\* The place of each teardown step in the order the claim gives.
C16_Rank(e) ==
    CASE e.op = "disp_drv.remove" -> 1
      [] e.op = "lvesp32.deinit" -> 2
      [] e.op = "spi_device_get_trans_result" -> 3
      [] e.op = "spi_bus_remove_device" -> 4
      [] e.op = "spi_bus_free" -> 5
      [] e.op = "heap_caps_free(buf1)" -> 6
      [] e.op = "heap_caps_free(buf2)" -> 7
      [] e.op = "heap_caps_free(trans_buffer)" -> 8

C16_Has(r) == \E i \in 1..Len(trace) : C16_Rank(trace[i]) = r

\* C16: deinit deregisters the driver, stops the event loop, drains the
\* completed transactions, detaches the device, frees the bus, frees the
\* pixel buffers and frees the scratch buffer, in this order: no step comes
\* before an earlier one, nothing is released before the deregistration, no
\* pixel buffer is freed before the device is detached and the bus freed,
\* and the first deinit of a driver does all the steps that apply to it.
C16_TeardownOrder ==
    pc \in DeinitPcs =>
        /\ \A i, j \in 1..Len(trace) :
              i < j => /\ C16_Rank(trace[i]) <= C16_Rank(trace[j])
                       /\ (C16_Rank(trace[i]) = C16_Rank(trace[j]) => C16_Rank(trace[i]) = 3)
        /\ \A i \in 1..Len(trace) :
              C16_Rank(trace[i]) >= 3 => C16_Rank(trace[1]) = 1
        /\ \A i \in 1..Len(trace) :
              C16_Rank(trace[i]) \in {6, 7} =>
                  /\ \E j \in 1..(i - 1) : C16_Rank(trace[j]) = 4
                  /\ \E j \in 1..(i - 1) : C16_Rank(trace[j]) = 5
        /\ (pc = "deinit_ret" /\ deinitCalls = 1) =>
              /\ C16_Has(1) /\ C16_Has(3) /\ C16_Has(4) /\ C16_Has(5) /\ C16_Has(6) /\ C16_Has(8)
              /\ C16_Has(2) <=> ~cfg.asynchronous
              /\ C16_Has(7) <=> heap.buf2 # "unalloc"
              /\ ~registered
              /\ hw = [bus |-> "freed", dev |-> "removed"]

\* A first teardown of a double-buffered driver that popped one completed
\* transaction before the poll timed out.
C16_Witness ==
    /\ pc = "deinit_ret"
    /\ deinitCalls = 1
    /\ Len(trace) = 9
    /\ trace[1] = Ev("disp_drv.remove", <<>>)
    /\ trace[3] = Ev("spi_device_get_trans_result", <<0>>)
    /\ trace[8] = Ev("heap_caps_free(buf2)", <<>>)
    /\ trace[9] = Ev("heap_caps_free(trans_buffer)", <<>>)

\* The positions whose step calls send_cmd, and those whose step calls
\* send_data, send_trans_word or send_data_dma.
C17_CmdPcs == {"init_cmd", "flush_col_cmd", "flush_row_cmd", "flush_ram_cmd"}
C17_DataPcs == {"init_data", "send_data", "flush_col_data", "flush_row_data", "flush_dma"}

\* A step that hands a transfer to the peripheral: a blocking transmit or a
\* queued transaction appears on the bus.
C17_Issued ==
    /\ Len(trace') = Len(trace) + 1
    /\ trace'[Len(trace')].op \in {"cmd", "data", "dma"}

\* C17: when a transfer is handed to the peripheral the select line is
\* already at its level, 0 for the byte of send_cmd and 1 for the payload of
\* send_data, send_trans_word and send_data_dma, and the line is 1 for as
\* long as a DMA pixel transfer is queued or running.
C17_SelectLine ==
    /\ [](dmaq # <<>> => dc = 1)
    /\ [][C17_Issued =>
            \/ pc \in C17_CmdPcs /\ dc' = 0 /\ trace'[Len(trace')].op = "cmd"
            \/ pc \in C17_DataPcs \ {"flush_dma"} /\ dc' = 1
                  /\ trace'[Len(trace')].op = "data"
            \/ pc = "flush_dma" /\ dc' = 1 /\ trace'[Len(trace')].op = "dma"]_vars

\* A flush has sent commands with the line low and address words with the
\* line high, and its pixel transfer is running with the line high.
C17_Witness ==
    /\ pc = "flush_ret"
    /\ dmaq # <<>>
    /\ dc = 1
    /\ Len(trace) = 6
    /\ trace[1].op = "cmd" /\ trace[2].op = "data" /\ trace[5].op = "cmd"
    /\ trace[6].op = "dma"

\* The step of stat() when there is at least one sample.
C18_StatStep == pc = "idle" /\ pc' = "stat_ret" /\ monitor_count >= 1

\* r is the accumulator a, taken in cycles, integer-divided by n:
\* r = (a * CycleUnit) \div n, written as r * n <= a * CycleUnit < (r + 1) * n
\* with both sides divided by CycleUnit and rounded up, so that no product
\* leaves the range of the checker's integers.
C18_CyclesPerSample(r, a, n) ==
    /\ (r * n + (CycleUnit - 1)) \div CycleUnit <= a
    /\ a < ((r + 1) * n + (CycleUnit - 1)) \div CycleUnit

\* C18 as stated: after N >= 1 monitor calls stat returns each of the four
\* accumulators integer-divided by N alone, the setup and DMA means in cycles.
C18_MeansPerSampleInCycles ==
    [][C18_StatStep =>
         /\ stat_ret'.ret = "tuple"
         /\ stat_ret'.time = monitor_acc_time \div monitor_count
         /\ stat_ret'.px = monitor_acc_px \div monitor_count
         /\ C18_CyclesPerSample(stat_ret'.setup, flush_acc_setup_cycles, monitor_count)
         /\ C18_CyclesPerSample(stat_ret'.dma, flush_acc_dma_cycles, monitor_count)]_vars

\* C18, amended: after N >= 1 monitor calls stat returns the time and pixel
\* sums integer-divided by N, and the setup and DMA accumulators
\* integer-divided by N times the number of cycles in a millisecond, so
\* the setup and DMA means are milliseconds per sample.
C18_MeansPerSample ==
    [][C18_StatStep =>
         /\ stat_ret'.ret = "tuple"
         /\ stat_ret'.time = monitor_acc_time \div monitor_count
         /\ stat_ret'.px = monitor_acc_px \div monitor_count
         /\ stat_ret'.setup * (monitor_count * cycles_in_ms) <= flush_acc_setup_cycles
         /\ flush_acc_setup_cycles < (stat_ret'.setup + 1) * (monitor_count * cycles_in_ms)
         /\ stat_ret'.dma * (monitor_count * cycles_in_ms) <= flush_acc_dma_cycles
         /\ flush_acc_dma_cycles < (stat_ret'.dma + 1) * (monitor_count * cycles_in_ms)]_vars

\* stat() has returned the means of two samples taken around a flush whose
\* setup took two and a half milliseconds.
C18_Witness ==
    /\ pc = "stat_ret"
    /\ stat_ret.ret = "tuple"
    /\ stat_ret.time = 3
    /\ stat_ret.px = 28850
    /\ stat_ret.setup = 1
    /\ monitor_count = 0

\* The cycles the counter ran from reading a to reading b, if it ran for
\* less than a full turn.
C19_Elapsed(a, b) == ((b - a) + Wrap32) % Wrap32

C19_FlushEntry == pc = "idle" /\ pc' = "flush_col_cmd"
C19_DmaIssue == pc = "flush_dma" /\ pc' = "flush_ret"
C19_StatRead == pc = "idle" /\ pc' = "stat_ret"

\* C19: the two latencies are accumulated apart and each interval once.
\* The step of a flush that issues the DMA transfer adds the cycles from the
\* entry of that flush to the issue to the setup accumulator, and nothing to
\* the DMA accumulator; the entry of the next flush adds the cycles from the
\* issue of the completed transfer to its completion to the DMA accumulator,
\* once, and nothing to the setup accumulator; an interval over which the
\* counter, as the driver reads it, did not go up is left out; no other step
\* but a stat read changes an accumulator, and no accumulator goes negative.
C19_CycleAccounting ==
    /\ [](flush_acc_setup_cycles >= 0 /\ flush_acc_dma_cycles >= 0)
    /\ [][(C19_DmaIssue =>
              /\ flush_acc_dma_cycles' = flush_acc_dma_cycles
              /\ flush_acc_setup_cycles' =
                    IF IntVal(lap'.mark) > IntVal(lap.entry)
                      THEN flush_acc_setup_cycles + C19_Elapsed(lap.entry, lap'.mark)
                      ELSE flush_acc_setup_cycles)
           /\ (C19_FlushEntry =>
                 /\ flush_acc_setup_cycles' = flush_acc_setup_cycles
                 /\ ~lap'.pending
                 /\ flush_acc_dma_cycles' =
                       IF lap.pending /\ IntVal(lap.done) # 0
                                      /\ IntVal(lap.done) > IntVal(lap.issue)
                         THEN flush_acc_dma_cycles + C19_Elapsed(lap.issue, lap.done)
                         ELSE flush_acc_dma_cycles)
           /\ (~(C19_DmaIssue \/ C19_FlushEntry \/ C19_StatRead) =>
                 /\ flush_acc_setup_cycles' = flush_acc_setup_cycles
                 /\ flush_acc_dma_cycles' = flush_acc_dma_cycles)
           /\ (C19_StatRead =>
                 /\ flush_acc_setup_cycles' \in {0, flush_acc_setup_cycles}
                 /\ flush_acc_dma_cycles' \in {0, flush_acc_dma_cycles})]_vars

\* A second flush has been entered after a first whose setup and whose
\* transfer each took two and a half milliseconds.
C19_Witness ==
    /\ pc = "flush_col_cmd"
    /\ flush_acc_setup_cycles = 9376
    /\ flush_acc_dma_cycles = 9376
    /\ lap.issue = 9376
    /\ lap.done = 18752

\* The constructor has raised before it assigned the command table.
C20_ConstructionFailed == pc = "failed" /\ "init_cmds" \notin attrs

\* C20: when the constructor has raised, no pixel buffer and no scratch
\* buffer is allocated, the bus is not initialised, no device is attached
\* and the event loop with its finalizer is not running.
C20_FailedConstructionHoldsNothing ==
    C20_ConstructionFailed =>
        /\ \A b \in DOMAIN heap : heap[b] # "live"
        /\ hw.bus # "init"
        /\ hw.dev # "attached"
        /\ lvesp32 # "running"

\* C21: every payload of the command table fits the scratch buffer, so a
\* run of init on a constructed driver, with the peripheral accepting every
\* transfer, raises nothing, never ends as failed, and goes on to register
\* the driver and return.
C21_InitReachesReady ==
    /\ []("init_cmds" \in attrs =>
            \A i \in 1..Len(init_cmds) :
                "data" \in DOMAIN init_cmds[i] =>
                    Len(init_cmds[i].data) <= TRANS_BUFFER_LEN)
    /\ [](pc \in InitPcs => err = None)
    /\ [][(pc \in InitPcs) => (pc' # "failed")]_vars
    /\ (pc = "init_gpio" ~> (pc = "init_ret" /\ registered /\ err = None))

\* init has sent the whole table, its longest payload of twelve bytes
\* included, and has registered the driver.
C21_Witness ==
    /\ pc = "init_ret"
    /\ registered
    /\ err = None
    /\ Len(init_cmds) = 51
    /\ Len(init_cmds[41].data) = 12
    /\ \E i \in 1..Len(trace) : trace[i] = Ev("data", init_cmds[41].data)

====
